---- MODULE Spec2Model ----
(***************************************************************************)
(* ToonVision: bounding boxes (src/core/bounding_box.py), labeled images   *)
(* (src/core/labeled_image.py), the fetch layer (src/dataset/fetch_data.py)*)
(* and the YOLO dataset builder (src/dataset/create_yolo_dataset.py).      *)
(*                                                                         *)
(* Numbers that are Python floats in the source are exact rationals here,  *)
(* records [n |-> numerator, d |-> denominator] with d > 0; binary         *)
(* floating-point rounding is outside the model.  File names are sequences *)
(* of chunks (<<"a", ".png">> is a.png), so that str.replace and           *)
(* str.endswith act on them as they do on the text.  A text line is the    *)
(* sequence of its whitespace-separated tokens, a blank line is << >>.     *)
(***************************************************************************)
EXTENDS Integers, Sequences, FiniteSets, TLC

VARIABLES
    cvArgs, cvResult,              \* one BoundingBox.yolo_to_absolute call
    annotation, boxResult,         \* one BoundingBox.from_yolo call
    labelFile, fetchResult,        \* one fetch_yolo_boxes call
    limage, outputFiles, saved,    \* LabeledImage.extract_bboxes and its output dir
    inImages, inLabels,            \* create_dataset: the two input directories
    outImages, outLabels,          \* output_dir/images/{train,val}, labels/{train,val}
    manifest,                      \* output_dir/dataset.yaml
    runs                           \* the two latest create_dataset runs, oldest first

vars == <<cvArgs, cvResult, annotation, boxResult, labelFile, fetchResult,
          limage, outputFiles, saved, inImages, inLabels, outImages, outLabels,
          manifest, runs>>

boxVars == <<cvArgs, cvResult>>
parseVars == <<annotation, boxResult>>
fetchVars == <<labelFile, fetchResult>>
extractVars == <<limage, outputFiles, saved>>
datasetVars == <<inImages, inLabels, outImages, outLabels, manifest, runs>>

None == "None"

(***************************************************************************)
(* Bounds of the model.                                                    *)
(***************************************************************************)
Grid == 10          \* YOLO coordinates range over k/Grid, k in 0..Grid
MaxTokens == 6      \* longest token list handed to from_yolo
MaxLines == 3       \* longest label file read by fetch_yolo_boxes
MaxBoxes == 3       \* most boxes of one LabeledImage
MaxFiles == 3       \* most files in the input images directory

(***************************************************************************)
(* Rational arithmetic standing for the float arithmetic of the source.    *)
(***************************************************************************)
Rat(n, d) == [n |-> n, d |-> d]
RInt(k) == Rat(k, 1)
RAdd(p, q) == Rat(p.n * q.d + q.n * p.d, p.d * q.d)
RSub(p, q) == Rat(p.n * q.d - q.n * p.d, p.d * q.d)
RMul(p, q) == Rat(p.n * q.n, p.d * q.d)
RDivInt(p, k) == Rat(p.n, p.d * k)

\* Python's int(float): truncation toward zero.
TruncDiv(a, b) == IF a >= 0 THEN a \div b ELSE -((-a) \div b)
PyInt(p) == TruncDiv(p.n, p.d)
\* math.floor, for comparison: rounding toward minus infinity.
Floor(p) == p.n \div p.d

(***************************************************************************)
(* BBFORMAT and BoundingBox.                                               *)
(***************************************************************************)
YOLO == "YOLO"
ABSOLUTE == "ABSOLUTE"
PIL == "PIL"
BBFORMAT == {YOLO, ABSOLUTE, PIL}

BoundingBox(x, y, w, h, label, format) ==
    [x |-> x, y |-> y, w |-> w, h |-> h, label |-> label, format |-> format]

FloorAbsolute(x, y, w, h, img_width, img_height, label) ==
    BoundingBox(RInt(Floor(RMul(RSub(x, RDivInt(w, 2)), RInt(img_width)))),
                RInt(Floor(RMul(RSub(y, RDivInt(h, 2)), RInt(img_height)))),
                RInt(Floor(RMul(w, RInt(img_width)))),
                RInt(Floor(RMul(h, RInt(img_height)))),
                label, ABSOLUTE)

yolo_to_absolute(x, y, w, h, img_width, img_height, label) ==
    LET absolute_x == PyInt(RMul(RSub(x, RDivInt(w, 2)), RInt(img_width)))
        absolute_y == PyInt(RMul(RSub(y, RDivInt(h, 2)), RInt(img_height)))
        absolute_width == PyInt(RMul(w, RInt(img_width)))
        absolute_height == PyInt(RMul(h, RInt(img_height)))
    IN  BoundingBox(RInt(absolute_x), RInt(absolute_y),
                    RInt(absolute_width), RInt(absolute_height),
                    label, ABSOLUTE)

(***************************************************************************)
(* Results of a call: a returned value or a raised exception.              *)
(***************************************************************************)
NotCalled == [kind |-> "none", value |-> None, exc |-> None]
Return(v) == [kind |-> "return", value |-> v, exc |-> None]
Raise(e) == [kind |-> "raise", value |-> None, exc |-> e]

(***************************************************************************)
(* yolo_to_absolute on every YOLO tuple of the grid.                       *)
(***************************************************************************)
YoloValues == {Rat(k, Grid) : k \in 0..Grid}
ImgDims == {1, 3, 100}

IdleBox == cvArgs = None /\ cvResult = NotCalled
IdleParse == annotation = << >> /\ boxResult = NotCalled
IdleFetch == labelFile = << >> /\ fetchResult = NotCalled
IdleExtract == limage = None /\ outputFiles = << >> /\ saved = << >>
IdleDataset ==
    /\ inImages = {} /\ inLabels = << >>
    /\ outImages = << >> /\ outLabels = << >>
    /\ manifest = << >> /\ runs = << >>

InitConvert ==
    /\ cvArgs \in [x : YoloValues, y : YoloValues, w : YoloValues, h : YoloValues,
                   img_width : ImgDims, img_height : ImgDims]
    /\ cvResult = NotCalled
    /\ IdleParse /\ IdleFetch /\ IdleExtract /\ IdleDataset

YoloToAbsolute ==
    /\ cvResult.kind = "none"
    /\ cvResult' = Return(yolo_to_absolute(cvArgs.x, cvArgs.y, cvArgs.w, cvArgs.h,
                                           cvArgs.img_width, cvArgs.img_height, "cog"))
    /\ UNCHANGED <<cvArgs, parseVars, fetchVars, extractVars, datasetVars>>

NextConvert == YoloToAbsolute

SpecConvert == InitConvert /\ [][NextConvert]_vars

(***************************************************************************)
(* C1 as claimed: yolo_to_absolute returns a box tagged ABSOLUTE whose     *)
(* w, h are floor(w*img_width), floor(h*img_height) and whose x, y are     *)
(* floor((x - w/2)*img_width), floor((y - h/2)*img_height); a 100x100      *)
(* image with (0.5, 0.5, 0.2, 0.4) gives x=40, y=30, w=20, h=40.            *)
(***************************************************************************)
IsFloorOf(v, p) == v * p.d <= p.n /\ p.n < (v + 1) * p.d
IsTruncOf(v, p) ==
    IF p.n >= 0 THEN v * p.d <= p.n /\ p.n < (v + 1) * p.d
                ELSE (v - 1) * p.d < p.n /\ p.n <= v * p.d
IsIntField(p) == p.d = 1

CornerX(a) == RMul(RSub(a.x, RDivInt(a.w, 2)), RInt(a.img_width))
CornerY(a) == RMul(RSub(a.y, RDivInt(a.h, 2)), RInt(a.img_height))
SizeW(a) == RMul(a.w, RInt(a.img_width))
SizeH(a) == RMul(a.h, RInt(a.img_height))

ExampleArgs == [x |-> Rat(5, 10), y |-> Rat(5, 10), w |-> Rat(2, 10), h |-> Rat(4, 10),
                img_width |-> 100, img_height |-> 100]
ExampleBox ==
    yolo_to_absolute(ExampleArgs.x, ExampleArgs.y, ExampleArgs.w, ExampleArgs.h,
                     ExampleArgs.img_width, ExampleArgs.img_height, "cog")
ExampleHolds ==
    /\ ExampleBox.format = ABSOLUTE
    /\ <<ExampleBox.x, ExampleBox.y, ExampleBox.w, ExampleBox.h>>
         = <<RInt(40), RInt(30), RInt(20), RInt(40)>>

C1_AsClaimed ==
    cvResult.kind = "return" =>
        LET b == cvResult.value IN
        /\ b.format = ABSOLUTE
        /\ IsIntField(b.x) /\ IsIntField(b.y) /\ IsIntField(b.w) /\ IsIntField(b.h)
        /\ IsFloorOf(b.w.n, SizeW(cvArgs)) /\ IsFloorOf(b.h.n, SizeH(cvArgs))
        /\ IsFloorOf(b.x.n, CornerX(cvArgs)) /\ IsFloorOf(b.y.n, CornerY(cvArgs))
        /\ ExampleHolds

(***************************************************************************)
(* C1 as amended: the box is tagged ABSOLUTE, w and h are floor(w*img_width)*)
(* and floor(h*img_height), and x and y are (x - w/2)*img_width and        *)
(* (y - h/2)*img_height truncated toward zero, which is the floor exactly  *)
(* when the product is an integer or not negative; the 100x100 example     *)
(* gives x=40, y=30, w=20, h=40.                                           *)
(***************************************************************************)
C1_Truncates ==
    cvResult.kind = "return" =>
        LET b == cvResult.value IN
        /\ b.format = ABSOLUTE
        /\ IsIntField(b.x) /\ IsIntField(b.y) /\ IsIntField(b.w) /\ IsIntField(b.h)
        /\ IsFloorOf(b.w.n, SizeW(cvArgs)) /\ IsFloorOf(b.h.n, SizeH(cvArgs))
        /\ IsTruncOf(b.x.n, CornerX(cvArgs)) /\ IsTruncOf(b.y.n, CornerY(cvArgs))
        /\ (CornerX(cvArgs).n >= 0 => IsFloorOf(b.x.n, CornerX(cvArgs)))
        /\ (CornerY(cvArgs).n >= 0 => IsFloorOf(b.y.n, CornerY(cvArgs)))
        /\ ExampleHolds

\* The claim's own example has been converted.
C1_Witness ==
    /\ cvResult.kind = "return"
    /\ cvArgs = ExampleArgs
    /\ cvResult.value.x = RInt(40) /\ cvResult.value.h = RInt(40)

\* A box that sticks out of the image on the left has been converted.
C1_NegativeCorner ==
    /\ cvResult.kind = "return"
    /\ CornerX(cvArgs).n < 0
    /\ ~IsFloorOf(cvResult.value.x.n, CornerX(cvArgs))

(***************************************************************************)
(* BoundingBox.from_yolo.  float(token) is a table: a token is a valid     *)
(* floating-point literal exactly when the table holds it.                 *)
(***************************************************************************)
FloatTable ==
    [t \in {"6", "0.5", "1e-1", "0.4023", "0.4336", "0.1077", "0.4699"} |->
        CASE t = "6" -> Rat(6, 1)
          [] t = "0.5" -> Rat(5, 10)
          [] t = "1e-1" -> Rat(1, 10)
          [] t = "0.4023" -> Rat(4023, 10000)
          [] t = "0.4336" -> Rat(4336, 10000)
          [] t = "0.1077" -> Rat(1077, 10000)
          [] t = "0.4699" -> Rat(4699, 10000)]
IsFloatLiteral(t) == t \in DOMAIN FloatTable
float(t) == FloatTable[t]

\* annotation[1:]
Slice1(annotation_) == SubSeq(annotation_, 2, Len(annotation_))

\* A plausible slip: the label is taken from the list but only the first
\* four coordinates present are read, missing ones defaulting to 0.
from_yolo_lenient(annotation_) ==
    LET rest == Slice1(annotation_)
        at(i) == IF i <= Len(rest) /\ IsFloatLiteral(rest[i]) THEN float(rest[i])
                 ELSE Rat(0, 1)
    IN  IF Len(annotation_) = 0 THEN Raise("IndexError")
        ELSE Return(BoundingBox(at(1), at(2), at(3), at(4), annotation_[1], YOLO))

from_yolo(annotation_) ==
    IF Len(annotation_) = 0
    THEN Raise("IndexError")                           \* label = annotation[0]
    ELSE LET label == annotation_[1]
             rest == Slice1(annotation_)
         IN  \* x, y, w, h = map(float, annotation[1:])
             IF \E i \in 1..Len(rest) : i <= 5 /\ ~IsFloatLiteral(rest[i])
                                        /\ \A j \in 1..(i - 1) : IsFloatLiteral(rest[j])
             THEN Raise("ValueError")                  \* could not convert string to float
             ELSE IF Len(rest) # 4
             THEN Raise("ValueError")                  \* not enough / too many values to unpack
             ELSE Return(BoundingBox(float(rest[1]), float(rest[2]),
                                     float(rest[3]), float(rest[4]), label, YOLO))

Tokens == {"6", "0.5", "1e-1", "cog"}
SeqsUpTo(S, n) == UNION {[1..k -> S] : k \in 0..n}

InitFromYolo ==
    /\ annotation \in SeqsUpTo(Tokens, MaxTokens)
    /\ boxResult = NotCalled
    /\ IdleBox /\ IdleFetch /\ IdleExtract /\ IdleDataset

FromYolo ==
    /\ boxResult.kind = "none"
    /\ boxResult' = from_yolo(annotation)
    /\ UNCHANGED <<annotation, boxVars, fetchVars, extractVars, datasetVars>>

NextFromYolo == FromYolo

SpecFromYolo == InitFromYolo /\ [][NextFromYolo]_vars

(***************************************************************************)
(* C8: from_yolo fails with an error, and returns no box, whenever its     *)
(* token list has fewer than 5 elements or any of tokens 1..4 is not a     *)
(* valid floating-point literal; on a list [label, x, y, w, h] of valid    *)
(* tokens it returns a box tagged YOLO whose label is token 0 kept as a    *)
(* string and whose x, y, w, h are the parsed values of tokens 1..4 in     *)
(* that order.                                                             *)
(***************************************************************************)
BadAnnotation(a) ==
    \/ Len(a) < 5
    \/ \E i \in 2..5 : ~IsFloatLiteral(a[i])

ExampleAnnotation == <<"6", "0.4023", "0.4336", "0.1077", "0.4699">>

C8_FromYolo ==
    /\ boxResult.kind # "none" =>
        /\ BadAnnotation(annotation) => boxResult.kind = "raise"
        /\ (Len(annotation) = 5 /\ ~BadAnnotation(annotation)) =>
              /\ boxResult.kind = "return"
              /\ boxResult.value.format = YOLO
              /\ boxResult.value.label = annotation[1]
              /\ boxResult.value.x = FloatTable[annotation[2]]
              /\ boxResult.value.y = FloatTable[annotation[3]]
              /\ boxResult.value.w = FloatTable[annotation[4]]
              /\ boxResult.value.h = FloatTable[annotation[5]]
    /\ from_yolo(ExampleAnnotation) =
         Return([x |-> Rat(4023, 10000), y |-> Rat(4336, 10000), w |-> Rat(1077, 10000),
                 h |-> Rat(4699, 10000), label |-> "6", format |-> YOLO])

\* A five-token line with a non-numeric label and distinct coordinates has
\* been parsed into a box.
C8_Witness ==
    /\ boxResult.kind = "return"
    /\ annotation = <<"cog", "0.5", "1e-1", "6", "0.5">>
    /\ boxResult.value.y = Rat(1, 10)

\* A list that is too short has been rejected.
C8_ShortRejected ==
    /\ boxResult.kind = "raise"
    /\ Len(annotation) = 3
    /\ \A i \in 2..3 : IsFloatLiteral(annotation[i])

(***************************************************************************)
(* fetch_yolo_boxes: one from_yolo per line of the label file, the first   *)
(* exception ending the read.                                              *)
(***************************************************************************)
RECURSIVE ReadBoxes(_, _)
ReadBoxes(lines, boxes) ==
    IF lines = << >> THEN Return(boxes)
    ELSE LET r == from_yolo(Head(lines))               \* line.split() is the line itself
         IN  IF r.kind = "raise" THEN r
             ELSE ReadBoxes(Tail(lines), Append(boxes, r.value))

fetch_yolo_boxes(file) == ReadBoxes(file, << >>)

GoodLineA == <<"6", "0.5", "1e-1", "0.5", "0.5">>
GoodLineB == <<"cog", "1e-1", "0.5", "1e-1", "1e-1">>
BlankLine == << >>
ShortLine == <<"6", "0.5">>
Lines == {GoodLineA, GoodLineB, BlankLine, ShortLine}

InitFetch ==
    /\ labelFile \in SeqsUpTo(Lines, MaxLines)
    /\ fetchResult = NotCalled
    /\ IdleBox /\ IdleParse /\ IdleExtract /\ IdleDataset

FetchYoloBoxes ==
    /\ fetchResult.kind = "none"
    /\ fetchResult' = fetch_yolo_boxes(labelFile)
    /\ UNCHANGED <<labelFile, boxVars, parseVars, extractVars, datasetVars>>

NextFetch == FetchYoloBoxes

SpecFetch == InitFetch /\ [][NextFetch]_vars

(***************************************************************************)
(* C6: fetch_yolo_boxes skips blank lines instead of treating them as      *)
(* errors: for a label file whose non-blank lines are all well-formed it   *)
(* returns exactly one BoundingBox per non-blank line, in file order, and  *)
(* raises nothing, however many blank lines the file contains.             *)
(***************************************************************************)
RECURSIVE NonBlank(_)
NonBlank(lines) ==
    IF lines = << >> THEN << >>
    ELSE IF Head(lines) = << >> THEN NonBlank(Tail(lines))
    ELSE <<Head(lines)>> \o NonBlank(Tail(lines))

WellFormedLine(l) == Len(l) = 5 /\ \A i \in 2..5 : IsFloatLiteral(l[i])

C6_BlankLinesSkipped ==
    (/\ fetchResult.kind # "none"
     /\ \A i \in 1..Len(labelFile) : labelFile[i] # << >> => WellFormedLine(labelFile[i]))
    => /\ fetchResult.kind = "return"
       /\ LET kept == NonBlank(labelFile) IN
          /\ Len(fetchResult.value) = Len(kept)
          /\ \A i \in 1..Len(kept) :
                fetchResult.value[i] =
                    BoundingBox(FloatTable[kept[i][2]], FloatTable[kept[i][3]],
                                FloatTable[kept[i][4]], FloatTable[kept[i][5]],
                                kept[i][1], YOLO)

\* What the code does keep: a file without blank lines, all well-formed.
C6_NoBlankLinesRead ==
    (/\ fetchResult.kind # "none"
     /\ \A i \in 1..Len(labelFile) : WellFormedLine(labelFile[i]))
    => /\ fetchResult.kind = "return"
       /\ Len(fetchResult.value) = Len(labelFile)

(***************************************************************************)
(* File names.  A name is a sequence of chunks; Text is the string it      *)
(* spells.                                                                 *)
(***************************************************************************)
RECURSIVE Text(_)
Text(chunks) == IF chunks = << >> THEN "" ELSE Head(chunks) \o Text(Tail(chunks))

\* str.replace(old, new): every occurrence of the chunk is replaced.
RECURSIVE replace(_, _, _)
replace(name, old, new) ==
    IF name = << >> THEN << >>
    ELSE (IF Head(name) = old THEN new ELSE <<Head(name)>>) \o replace(Tail(name), old, new)

endswith(name, suffix) == name # << >> /\ name[Len(name)] = suffix

(***************************************************************************)
(* LabeledImage.extract_bboxes.  A saved crop is the pair of its path in   *)
(* output_images_dir and the rectangle (left, top, right, bottom) handed   *)
(* to Image.crop; the image itself does not change.                        *)
(***************************************************************************)
LabeledImage(filename, image, boxes) ==
    [filename |-> filename, image |-> image, boxes |-> boxes]

CropOf(self, box_) ==
    LET box == IF box_.format = YOLO
               THEN yolo_to_absolute(box_.x, box_.y, box_.w, box_.h,
                                     self.image.width, self.image.height, box_.label)
               ELSE box_
    IN  <<PyInt(box.x), PyInt(box.y), PyInt(RAdd(box.x, box.w)), PyInt(RAdd(box.y, box.h))>>

SavedName(self, idx) ==
    Text(replace(self.filename, ".png", << >>)) \o "_" \o self.boxes[idx + 1].label
        \o "_" \o ToString(idx) \o ".png"

\* The saves of one call, in order: enumerate(boxes) is zero-based.
extract_bboxes(self) ==
    [i \in 1..Len(self.boxes) |->
        [name |-> SavedName(self, i - 1), crop |-> CropOf(self, self.boxes[i])]]

\* The directory after the saves: a later save to the same path overwrites.
RECURSIVE SaveAll(_, _)
SaveAll(dir, saves) ==
    IF saves = << >> THEN dir
    ELSE LET s == Head(saves)
         IN  SaveAll([n \in DOMAIN dir \cup {s.name} |->
                         IF n = s.name THEN s.crop ELSE dir[n]], Tail(saves))

Filenames == {<<"a", ".png">>, <<"a", ".png", ".png">>, <<"a", ".jpg">>}
Images == {[width |-> 10, height |-> 10], [width |-> 3, height |-> 7]}
Boxes ==
    { BoundingBox(Rat(5, 10), Rat(5, 10), Rat(2, 10), Rat(4, 10), "cog", YOLO),
      BoundingBox(Rat(1, 10), Rat(5, 10), Rat(5, 10), Rat(3, 10), "cog_0", YOLO),
      BoundingBox(RInt(1), RInt(2), RInt(3), RInt(4), "cog", ABSOLUTE),
      BoundingBox(Rat(3, 2), RInt(0), Rat(3, 2), Rat(5, 2), "suit", ABSOLUTE),
      BoundingBox(RInt(1), RInt(2), RInt(4), RInt(6), "suit", PIL) }
EmptyDir == [n \in {} |-> << >>]

InitExtract ==
    /\ limage \in {LabeledImage(f, im, bs) :
                      f \in Filenames, im \in Images, bs \in SeqsUpTo(Boxes, MaxBoxes)}
    /\ outputFiles = EmptyDir
    /\ saved = << >>
    /\ IdleBox /\ IdleParse /\ IdleFetch /\ IdleDataset

\* One call; os.makedirs(exist_ok=True) leaves an existing directory as it is,
\* so a second call writes over the files of the first.
ExtractBboxes ==
    /\ Len(saved) < 2
    /\ saved' = Append(saved, extract_bboxes(limage))
    /\ outputFiles' = SaveAll(outputFiles, extract_bboxes(limage))
    /\ UNCHANGED <<limage, boxVars, parseVars, fetchVars, datasetVars>>

NextExtract == ExtractBboxes

SpecExtract == InitExtract /\ [][NextExtract]_vars

Called == saved # << >>
LastSaves == saved[Len(saved)]

(***************************************************************************)
(* C7: extract_bboxes on a LabeledImage with N boxes writes exactly N      *)
(* distinct output files into output_dir, one per box, the file for the    *)
(* box at zero-based position idx being named {stem}_{label}_{idx}.png     *)
(* (stem = the image filename without its extension), for idx in 0..N-1,   *)
(* even when several boxes carry the same label.                           *)
(***************************************************************************)
Extensions == {".png", ".jpg", ".txt"}
StemOf(name) ==
    IF name # << >> /\ name[Len(name)] \in Extensions
    THEN SubSeq(name, 1, Len(name) - 1) ELSE name

NFilesByIndex(stem) ==
    Called =>
        LET N == Len(limage.boxes) IN
        /\ Len(LastSaves) = N
        /\ \A i, j \in 1..N : i # j => LastSaves[i].name # LastSaves[j].name
        /\ \A i \in 1..N :
              /\ LastSaves[i].name =
                    Text(stem) \o "_" \o limage.boxes[i].label \o "_" \o ToString(i - 1) \o ".png"
              /\ LastSaves[i].name \in DOMAIN outputFiles
        /\ Cardinality(DOMAIN outputFiles) = N

C7_AsClaimed == NFilesByIndex(StemOf(limage.filename))

\* What the code does keep: N distinct files indexed by position, the stem
\* being the filename with every ".png" removed.
C7_PngRemoved == NFilesByIndex(replace(limage.filename, ".png", << >>))

(***************************************************************************)
(* C9: extract_bboxes never interprets a box under a convention other than *)
(* the one named by its format tag: the rectangle it crops for a box is    *)
(* the one the box denotes under its own format, a YOLO box being first    *)
(* converted with the image's width and height, an ABSOLUTE box            *)
(* (x, y, w, h) giving (x, y, x+w, y+h) and a PIL box (x1, y1, x2, y2)     *)
(* giving (x1, y1, x2, y2).                                                *)
(***************************************************************************)
Denoted(box, image) ==
    CASE box.format = YOLO ->
            LET a == yolo_to_absolute(box.x, box.y, box.w, box.h,
                                      image.width, image.height, box.label)
            IN  <<a.x.n, a.y.n, a.x.n + a.w.n, a.y.n + a.h.n>>
      [] box.format = ABSOLUTE ->
            <<PyInt(box.x), PyInt(box.y), PyInt(RAdd(box.x, box.w)), PyInt(RAdd(box.y, box.h))>>
      [] box.format = PIL ->
            <<PyInt(box.x), PyInt(box.y), PyInt(box.w), PyInt(box.h)>>

C9_CropsOwnFormat ==
    Called => \A i \in 1..Len(limage.boxes) :
                 LastSaves[i].crop = Denoted(limage.boxes[i], limage.image)

\* What the code does keep: the claim for the boxes tagged YOLO or ABSOLUTE.
C9_CropsXywh ==
    Called => \A i \in 1..Len(limage.boxes) :
                 limage.boxes[i].format # PIL =>
                    LastSaves[i].crop = Denoted(limage.boxes[i], limage.image)

(***************************************************************************)
(* create_yolo_dataset.py.                                                 *)
(***************************************************************************)

\* replace_class_label: the lines written back to the file.
RECURSIVE RelabelLines(_, _, _)
RelabelLines(lines, replacement_class, target_class) ==
    IF lines = << >> THEN << >>
    ELSE LET parts == Head(lines)
             rest == RelabelLines(Tail(lines), replacement_class, target_class)
         IN  IF parts # << >>
             THEN (IF target_class = None \/ parts[1] = target_class
                   THEN <<(<<replacement_class>> \o Tail(parts))>>
                   ELSE <<parts>>) \o rest
             ELSE rest

replace_class_label(content, replacement_class, target_class) ==
    RelabelLines(content, replacement_class, target_class)

\* random.seed(seed) and the draws random.shuffle makes.  The generator is a
\* table: the k-th draw below `bound` is a function of the seed alone, which
\* is all the model keeps of the Mersenne Twister.  Every run names its seed
\* (the command line's default is 42); seeding from the system with seed
\* None is left out.
randbelow(seed, k, bound) == (seed * (k + 1) + k) % bound

\* random.shuffle: for i in reversed(range(1, len(x))): j = randbelow(i + 1);
\* x[i], x[j] = x[j], x[i].  Positions are 1-based here, k counts the draws.
RECURSIVE ShuffleFrom(_, _, _, _)
ShuffleFrom(x, i, k, seed) ==
    IF i < 2 THEN x
    ELSE LET j == randbelow(seed, k, i) + 1
             swapped == [x EXCEPT ![i] = x[j], ![j] = x[i]]
         IN  ShuffleFrom(swapped, i - 1, k + 1, seed)

shuffle(x, seed) == ShuffleFrom(x, Len(x), 1, seed)

\* for filename in os.listdir(input_images_dir): if filename.endswith(".png")
RECURSIVE PngOnly(_)
PngOnly(listing) ==
    IF listing = << >> THEN << >>
    ELSE (IF endswith(Head(listing), ".png") THEN <<Head(listing)>> ELSE << >>)
         \o PngOnly(Tail(listing))

\* An off-by-one in the split index.
NumTrainCeil(n, train_val_split) == PyInt(RMul(RInt(n), train_val_split)) + 1

\* num_train = int(len(images) * train_val_split)
NumTrain(n, train_val_split) == PyInt(RMul(RInt(n), train_val_split))

\* images[:k] and images[k:] with Python's slice rules.
SliceIndex(x, k) ==
    IF k < 0 THEN (IF Len(x) + k < 0 THEN 0 ELSE Len(x) + k)
    ELSE IF k > Len(x) THEN Len(x) ELSE k
SliceTo(x, k) == SubSeq(x, 1, SliceIndex(x, k))
SliceFrom(x, k) == SubSeq(x, SliceIndex(x, k) + 1, Len(x))

Range(f) == {f[i] : i \in DOMAIN f}

LabelName(image) == replace(image, ".png", <<".txt">>)

\* os.system("cp <input_labels_dir>/<name> <dir>"): the file is copied when it
\* exists; otherwise cp exits non-zero and the directory is left as it was.
\* The exit status os.system returns is dropped by the caller.
CpLabels(dir, labels, images) ==
    LET names == {LabelName(i) : i \in Range(images)} \cap DOMAIN labels
    IN  [n \in DOMAIN dir \cup names |-> IF n \in names THEN labels[n] ELSE dir[n]]
CpFailures(labels, images) ==
    {LabelName(i) : i \in Range(images)} \ DOMAIN labels

\* for filename in os.listdir(dir): replace_class_label(..., replacement_class="0")
RelabelDir(dir) == [n \in DOMAIN dir |-> replace_class_label(dir[n], "0", None)]

DatasetYaml ==
    [path |-> "output_dir", train |-> "images/train", val |-> "images/val",
     names |-> <<"entity">>]

\* One call of create_dataset: what it computes and what it leaves on disk.
create_dataset(labels_in, listing, train_val_split, seed, out_images, out_labels) ==
    LET images == shuffle(PngOnly(listing), seed)
        num_train == NumTrain(Len(images), train_val_split)
        train_images == SliceTo(images, num_train)
        val_images == SliceFrom(images, num_train)
        images_out == [train |-> out_images.train \cup Range(train_images),
                       val |-> out_images.val \cup Range(val_images)]
        copied == [train |-> CpLabels(out_labels.train, labels_in, train_images),
                   val |-> CpLabels(out_labels.val, labels_in, val_images)]
        failed == CpFailures(labels_in, train_images) \cup CpFailures(labels_in, val_images)
        labels_out == [train |-> RelabelDir(copied.train), val |-> RelabelDir(copied.val)]
    IN  [seed |-> seed, train_val_split |-> train_val_split, listing |-> PngOnly(listing),
         train_images |-> train_images, val_images |-> val_images,
         failed_copies |-> failed,
         \* no statement between the copies and the manifest tests an exit
         \* status or raises on one: every step runs and the call returns
         raised |-> FALSE,
         steps |-> <<"makedirs", "listdir", "shuffle", "split", "cp_images",
                     "cp_labels", "relabel", "yaml">>,
         images_out |-> images_out, labels_out |-> labels_out,
         yaml |-> DatasetYaml]

(***************************************************************************)
(* The corpus and the runs.                                                *)
(***************************************************************************)
A_png == <<"a", ".png">>
B_png == <<"b", ".png">>
C_png == <<"c", ".png">>
D_jpg == <<"d", ".jpg">>
ImageFiles == {A_png, B_png, C_png, D_jpg}

LabelText(name) ==
    CASE name = <<"a", ".txt">> ->
            << <<"6", "0.5", "0.5", "0.2", "0.2">>, << >>, <<"3", "1e-1", "0.5", "1e-1", "0.2">> >>
      [] name = <<"b", ".txt">> -> << <<"0", "0.5", "0.5", "0.5", "0.5">> >>
      [] name = <<"c", ".txt">> -> << <<"cog", "1e-1", "1e-1", "1e-1", "1e-1">> >>
LabelFiles == {<<"a", ".txt">>, <<"b", ".txt">>, <<"c", ".txt">>}
\* The labels directory holds every label file, or lacks the one of a.png.
LabelDirs == {LabelFiles, LabelFiles \ {<<"a", ".txt">>}}

Seeds == {1, 2}
Splits == {Rat(1, 2), Rat(4, 5)}

Listings(S) ==
    {p \in [1..Cardinality(S) -> S] : \A i, j \in DOMAIN p : i # j => p[i] # p[j]}

Init ==
    /\ inImages \in {S \in SUBSET ImageFiles : Cardinality(S) <= MaxFiles}
    /\ \E L \in LabelDirs : inLabels = [n \in L |-> LabelText(n)]
    /\ outImages = [train |-> {}, val |-> {}]
    /\ outLabels = [train |-> EmptyDir, val |-> EmptyDir]
    /\ manifest = << >>
    /\ runs = << >>
    /\ IdleBox /\ IdleParse /\ IdleFetch /\ IdleExtract

\* What a run leaves in `runs`: its arguments and what it computed.
RunLog(run) ==
    [seed |-> run.seed, train_val_split |-> run.train_val_split, listing |-> run.listing,
     train_images |-> run.train_images, val_images |-> run.val_images,
     failed_copies |-> run.failed_copies, raised |-> run.raised, steps |-> run.steps]

CreateDataset ==
    \E listing \in Listings(inImages), split \in Splits, seed \in Seeds :
        \E run \in {create_dataset(inLabels, listing, split, seed, outImages, outLabels)} :
            /\ outImages' = run.images_out
            /\ outLabels' = run.labels_out
            /\ manifest' = <<run.yaml>>
            /\ runs' = IF Len(runs) = 2 THEN <<runs[2], RunLog(run)>>
                        ELSE Append(runs, RunLog(run))
            /\ UNCHANGED <<inImages, inLabels, boxVars, parseVars, fetchVars, extractVars>>

Next == CreateDataset

Spec == Init /\ [][Next]_vars

Ran == runs # << >>
LastRun == runs[Len(runs)]
Pngs == {f \in inImages : endswith(f, ".png")}
SplitOf(run, image) == IF image \in Range(run.train_images) THEN "train" ELSE "val"

(***************************************************************************)
(* C2: create_dataset run on an input directory holding n '.png' images    *)
(* with fraction s splits them into a train set of exactly floor(n*s)      *)
(* images and a val set of the remaining n - floor(n*s) images, the two    *)
(* sets being disjoint and together equal to the set of input '.png'       *)
(* images (8 train + 2 val for n=10, s=0.8), so that the total number of   *)
(* images in the output equals the total number of images in the input.    *)
(* The output is the one of a run into a fresh output directory.           *)
(***************************************************************************)
TenImages == [i \in 1..10 |-> <<ToString(i), ".png">>]
TenImagesRun ==
    create_dataset(EmptyDir, TenImages, Rat(4, 5), 42,
                   [train |-> {}, val |-> {}], [train |-> EmptyDir, val |-> EmptyDir])
TenImagesExample ==
    /\ Len(TenImagesRun.train_images) = 8 /\ Len(TenImagesRun.val_images) = 2
    /\ Cardinality(TenImagesRun.images_out.train) = 8
    /\ Cardinality(TenImagesRun.images_out.val) = 2

C2_Split ==
    /\ \A r \in 1..Len(runs) :
          LET train == runs[r].train_images
              val == runs[r].val_images
              n == Cardinality(Pngs)
          IN  /\ IsFloorOf(Len(train), RMul(RInt(n), runs[r].train_val_split))
              /\ Len(val) = n - Len(train)
              /\ Cardinality(Range(train)) = Len(train)
              /\ Cardinality(Range(val)) = Len(val)
              /\ Range(train) \cap Range(val) = {}
              /\ Range(train) \cup Range(val) = Pngs
    /\ Len(runs) = 1 =>
          /\ outImages.train = Range(runs[1].train_images)
          /\ outImages.val = Range(runs[1].val_images)
          /\ Cardinality(outImages.train) + Cardinality(outImages.val) = Cardinality(Pngs)
    /\ TenImagesExample

\* A first run has split two '.png' images, one to each side, in a directory
\* that also holds a file that is no '.png'.
C2_Witness ==
    /\ Len(runs) = 1
    /\ inImages = {A_png, B_png, D_jpg}
    /\ runs[1].train_val_split = Rat(1, 2)
    /\ Len(runs[1].train_images) = 1 /\ Len(runs[1].val_images) = 1
    /\ Cardinality(outImages.train \cup outImages.val) = 2

(***************************************************************************)
(* C3: two runs of create_dataset with the same seed, the same             *)
(* train_val_split and the same set of input image filenames produce the   *)
(* same train/val partition (same membership of the train set and of the   *)
(* val set), whatever order the directory listing returns the filenames in.*)
(***************************************************************************)
C3_SameSeedSamePartition ==
    Len(runs) = 2 =>
        ((runs[1].seed = runs[2].seed /\ runs[1].train_val_split = runs[2].train_val_split)
         => /\ Range(runs[1].train_images) = Range(runs[2].train_images)
            /\ Range(runs[1].val_images) = Range(runs[2].val_images))

\* What the code does keep: the same partition when the listing order is the
\* same too.
C3_SameListingSamePartition ==
    Len(runs) = 2 =>
        ((/\ runs[1].seed = runs[2].seed
          /\ runs[1].train_val_split = runs[2].train_val_split
          /\ runs[1].listing = runs[2].listing)
         => /\ runs[1].train_images = runs[2].train_images
            /\ runs[1].val_images = runs[2].val_images)

(***************************************************************************)
(* C4: after create_dataset completes, for every input image the           *)
(* like-named '.txt' label file is present in the labels subdirectory of   *)
(* the same split (train or val) as the image, and every line of every     *)
(* label file under output_dir/labels has first token "0" regardless of    *)
(* its original class, with the remaining tokens of the line unchanged and *)
(* in the same order.                                                      *)
(***************************************************************************)
LikeNamedLabel(image) == StemOf(image) \o <<".txt">>

C4_LabelsCopiedAndRelabelled ==
    Ran =>
        /\ \A image \in Pngs :
              LikeNamedLabel(image) \in DOMAIN outLabels[SplitOf(LastRun, image)]
        /\ \A split \in {"train", "val"} : \A f \in DOMAIN outLabels[split] :
              LET original == NonBlank(inLabels[f])
                  written == outLabels[split][f]
              IN  /\ Len(written) = Len(original)
                  /\ \A i \in 1..Len(written) :
                        /\ written[i] # << >>
                        /\ written[i][1] = "0"
                        /\ Tail(written[i]) = Tail(original[i])

\* What the code does keep: the claim for the images whose label file exists.
C4_ExistingLabelsCopied ==
    Ran =>
        /\ \A image \in Pngs :
              LikeNamedLabel(image) \in DOMAIN inLabels =>
                 LikeNamedLabel(image) \in DOMAIN outLabels[SplitOf(LastRun, image)]
        /\ \A split \in {"train", "val"} : \A f \in DOMAIN outLabels[split] :
              LET original == NonBlank(inLabels[f])
                  written == outLabels[split][f]
              IN  /\ Len(written) = Len(original)
                  /\ \A i \in 1..Len(written) :
                        /\ written[i] # << >>
                        /\ written[i][1] = "0"
                        /\ Tail(written[i]) = Tail(original[i])

(***************************************************************************)
(* C5: a failure to copy an image or label file during create_dataset (for *)
(* example a label file missing for some image) is surfaced to the caller  *)
(* and aborts the build: the remaining steps, including the relabeling     *)
(* pass and the writing of dataset.yaml, are not executed after the failed *)
(* copy.                                                                   *)
(***************************************************************************)
C5_CopyFailureAborts ==
    (Ran /\ LastRun.failed_copies # {}) =>
        /\ LastRun.raised
        /\ "relabel" \notin Range(LastRun.steps)
        /\ "yaml" \notin Range(LastRun.steps)

(***************************************************************************)
(* C10: after any sequence of completed create_dataset runs that write     *)
(* into the same output_dir from the same input corpus (with any seeds and *)
(* any split fractions), output_dir still holds a partition of the corpus: *)
(* no image filename is present in both images/train and images/val, no    *)
(* label filename is present in both labels/train and labels/val, and the  *)
(* number of images under output_dir/images equals the number of input     *)
(* images.                                                                 *)
(***************************************************************************)
C10_OutputStaysPartition ==
    Ran =>
        /\ outImages.train \cap outImages.val = {}
        /\ DOMAIN outLabels.train \cap DOMAIN outLabels.val = {}
        /\ Cardinality(outImages.train) + Cardinality(outImages.val) = Cardinality(Pngs)

====
